---- MODULE Spec2Model ----
(***************************************************************************)
(* Model of chromadb/experimental/density.py: IndexDensityDistribution.    *)
(*                                                                         *)
(* The estimator is built once (__init__: count check, nearest-neighbour   *)
(* query, drop of column 0, row means, np.histogram(density=True),         *)
(* np.cumsum) and then queried any number of times (evaluate_query:        *)
(* np.array, optional warning, row means, np.digitize - 1, fancy-index     *)
(* lookup, tolist).                                                        *)
(*                                                                         *)
(* Numbers are exact rationals <<num, den>> in lowest terms with den > 0;  *)
(* NaN (np.mean of an empty slice) is <<0, 0>>.  Floating-point rounding   *)
(* is not modelled.  Arrays are sequences; bin indices are 0-based as in   *)
(* the source, so element i of an array is seq[i + 1].                     *)
(***************************************************************************)
EXTENDS Integers, Sequences, FiniteSets

\* ---------------------------------------------------------------- bounds
\* collection sizes 0..MaxN
MaxN == 3

\* estimator_neighborhood 1..MaxK
MaxK == 2

\* n_bins 1..MaxBins
MaxBins == 2

\* distances are integers 0..MaxDist
MaxDist == 1

\* rows of a query batch 0..MaxRows
MaxRows == 2


\* ------------------------------------------------------------- rationals
Abs(x) == IF x < 0 THEN -x ELSE x

RECURSIVE GCD(_, _)
GCD(a, b) == IF b = 0 THEN a ELSE GCD(b, a % b)

NaN == <<0, 0>>

IsNaN(x) == x[2] = 0

\* n/d in lowest terms, d # 0
Rat(n, d) ==
  LET s == IF d < 0 THEN -1 ELSE 1
      g == GCD(Abs(n), Abs(d))
  IN  <<(s * n) \div g, (s * d) \div g>>

FromInt(n) == <<n, 1>>

RAdd(x, y) == Rat(x[1] * y[2] + y[1] * x[2], x[2] * y[2])

RSub(x, y) == Rat(x[1] * y[2] - y[1] * x[2], x[2] * y[2])

RMul(x, y) == Rat(x[1] * y[1], x[2] * y[2])

\* y # 0
RDiv(x, y) == Rat(x[1] * y[2], x[2] * y[1])

\* IEEE comparisons: every comparison with NaN is false
RLe(x, y) == ~IsNaN(x) /\ ~IsNaN(y) /\ x[1] * y[2] <= y[1] * x[2]

RLt(x, y) == ~IsNaN(x) /\ ~IsNaN(y) /\ x[1] * y[2] < y[1] * x[2]

RECURSIVE SumInts(_)
SumInts(s) == IF s = <<>> THEN 0 ELSE Head(s) + SumInts(Tail(s))

\* np.mean of one row; the mean of an empty slice is nan
Mean(row) == IF Len(row) = 0 THEN NaN ELSE Rat(SumInts(row), Len(row))

\* np.mean(m, axis=1)
RowMeans(m) == [i \in 1..Len(m) |-> Mean(m[i])]

\* ------------------------------------------------------ numpy operations
RMin(S) == CHOOSE x \in S : \A y \in S : RLe(x, y)

RMax(S) == CHOOSE x \in S : \A y \in S : RLe(y, x)

Range(s) == {s[i] : i \in 1..Len(s)}

\* np.histogram raises ValueError when a.min() or a.max() is not finite
RangeNotFinite(a) == \E i \in 1..Len(a) : IsNaN(a[i])

\* numpy _get_outer_edges: (a.min(), a.max()), widened by 0.5 when equal
OuterEdges(a) ==
  LET lo == RMin(Range(a))
      hi == RMax(Range(a))
  IN  IF lo = hi THEN <<RSub(lo, Rat(1, 2)), RAdd(hi, Rat(1, 2))>>
      ELSE <<lo, hi>>

\* np.linspace(start, stop, num), num >= 2, endpoint included
linspace(start, stop, num) ==
  [j \in 1..num |->
     RAdd(start, RDiv(RMul(FromInt(j - 1), RSub(stop, start)), FromInt(num - 1)))]

\* the bin (0-based) np.histogram counts x in: half-open bins, the last closed
HistBin(x, edges) ==
  LET n == Len(edges) - 1
  IN  IF x = edges[n + 1] THEN n - 1
      ELSE (CHOOSE i \in 0..(n - 1) : RLe(edges[i + 1], x) /\ RLt(x, edges[i + 2]))

\* np.histogram(a, bins=n_bins, density=True) for finite a: n / db / n.sum()
histogram(a, bins) ==
  LET oe == OuterEdges(a)
      edges == linspace(oe[1], oe[2], bins + 1)
      n == [i \in 1..bins |->
              Cardinality({j \in 1..Len(a) : HistBin(a[j], edges) = i - 1})]
      db == [i \in 1..bins |-> RSub(edges[i + 1], edges[i])]
      total == SumInts(n)
  IN  [hist |-> [i \in 1..bins |-> RDiv(RDiv(FromInt(n[i]), db[i]), FromInt(total))],
       bin_edges |-> edges]

RECURSIVE RSum(_, _)
RSum(h, i) == IF i = 0 THEN FromInt(0) ELSE RAdd(RSum(h, i - 1), h[i])

\* mutant of cumsum: the per-bin densities stored without the running sum
cumsum_omitted(h) == h

\* np.cumsum
cumsum(h) == [i \in 1..Len(h) |-> RSum(h, i)]

\* np.digitize(x, bins), bins increasing, right=False: the number of edges <= x;
\* nan sorts after every edge
digitize(x, bins) ==
  IF IsNaN(x) THEN Len(bins)
  ELSE Cardinality({j \in 1..Len(bins) : RLe(bins[j], x)})

\* arr[idx] raises IndexError outside -len..len-1
IndexOutOfBounds(arr, idx) == idx >= Len(arr) \/ idx < -Len(arr)

\* arr[idx] of a numpy array: a negative index counts from the end
Lookup(arr, idx) == IF idx < 0 THEN arr[Len(arr) + idx + 1] ELSE arr[idx + 1]

\* --------------------------------------------- nearest-neighbour collaborator
\* one answer row: k ascending distances, the vector's own distance 0 first
NeighborRows(k) ==
  {r \in [1..k -> 0..MaxDist] : r[1] = 0 /\ \A i \in 1..(k - 1) : r[i] <= r[i + 1]}

\* the distance matrices get_nearest_neighbors may answer for n vectors and k
get_nearest_neighbors(n, k) == [1..n -> NeighborRows(k)]

\* dists[:, 1:]
DropFirstColumn(m) == [i \in 1..Len(m) |-> Tail(m[i])]

\* ------------------------------------------------------------------ state
VARIABLES
  collection_count,        \* collection.count()
  arg_neighborhood,        \* the estimator_neighborhood argument
  arg_n_bins,              \* the n_bins argument
  pc,                      \* "new" (being constructed), "fit", "raised"
  error,                   \* what __init__ raised
  nn_calls,                \* calls of get_nearest_neighbors
  dists_shape,             \* shape of dists after dropping column 0
  fit_counted,             \* {<<mean distance, bin np.histogram counted it in>>}
  percentiles,             \* self._percentiles
  bin_edges,               \* self._bin_edges
  estimator_neighborhood,  \* self._estimator_neighborhood
  last_query,              \* argument of the latest evaluate_query call
  last_outcome,            \* what that call returned or raised
  last_warnings,           \* logger.warning calls made by that call
  first_call,              \* the first evaluate_query call (SpecRepeat only)
  intervening              \* a call with another argument followed the first

vars == <<collection_count, arg_neighborhood, arg_n_bins, pc, error, nn_calls,
          dists_shape, fit_counted, percentiles, bin_edges,
          estimator_neighborhood, last_query, last_outcome, last_warnings,
          first_call, intervening>>

args == <<collection_count, arg_neighborhood, arg_n_bins>>

fitted == <<percentiles, bin_edges, estimator_neighborhood>>

construction == <<pc, error, nn_calls, dists_shape, fit_counted>>

NoOutcome == [kind |-> "none", line |-> 0, scores |-> <<>>]

NoCall == [query |-> <<>>, outcome |-> NoOutcome, warnings |-> 0]

\* The state on entry to __init__.  estimator_neighborhood is a positive
\* integer and n_bins >= 1 (np.histogram rejects fewer); the collection may be
\* empty.
Init ==
  /\ collection_count \in 0..MaxN
  /\ arg_neighborhood \in 1..MaxK
  /\ arg_n_bins \in 1..MaxBins
  /\ pc = "new"
  /\ error = "none"
  /\ nn_calls = 0
  /\ dists_shape = <<0, 0>>
  /\ fit_counted = {}
  /\ percentiles = <<>>
  /\ bin_edges = <<>>
  /\ estimator_neighborhood = 0
  /\ last_query = <<>>
  /\ last_outcome = NoOutcome
  /\ last_warnings = 0
  /\ first_call = NoCall
  /\ intervening = FALSE

\* ------------------------------------------------------------- __init__
\* mutant of CollectionTooSmall: a collection of exactly estimator_neighborhood
\* embeddings is let through
CollectionTooSmall_strict(count, neighborhood) == count < neighborhood

\* the guard of the ValueError at line 14
CollectionTooSmall(count, neighborhood) == count <= neighborhood

Raise(what) ==
  /\ pc' = "raised"
  /\ error' = what
  /\ UNCHANGED fitted

IndexDensityDistribution_init ==
  /\ pc = "new"
  /\ IF CollectionTooSmall(collection_count, arg_neighborhood)
     THEN /\ Raise("ValueError: collection too small")
          /\ UNCHANGED <<nn_calls, dists_shape, fit_counted>>
     ELSE \E answer \in get_nearest_neighbors(collection_count, arg_neighborhood) :
            LET dists == DropFirstColumn(answer)
                mean_dists == RowMeans(dists)
                h == histogram(mean_dists, arg_n_bins)
            IN  /\ nn_calls' = nn_calls + 1
                /\ dists_shape' = <<Len(dists), Len(dists[1])>>
                /\ IF RangeNotFinite(mean_dists)
                   THEN /\ Raise("ValueError: range is not finite")
                        /\ fit_counted' = {}
                   ELSE /\ pc' = "fit"
                        /\ error' = "none"
                        /\ fit_counted' =
                             {<<mean_dists[i], HistBin(mean_dists[i], h.bin_edges)>> :
                                i \in 1..Len(mean_dists)}
                        /\ percentiles' = cumsum(h.hist)
                        /\ bin_edges' = h.bin_edges
                        /\ estimator_neighborhood' = arg_neighborhood
  /\ UNCHANGED <<args, last_query, last_outcome, last_warnings, first_call,
                 intervening>>

\* -------------------------------------------------------- evaluate_query
QueryRows(len) ==
  {r \in [1..len -> 0..MaxDist] : \A i \in 1..(len - 1) : r[i] <= r[i + 1]}

\* batches of up to maxRows rows of one length; a row holds up to MaxK
\* ascending distances, so rows shorter than, as long as and longer than the
\* fitted neighborhood all occur
QueryBatches(maxRows) ==
  UNION {[1..n -> QueryRows(len)] : n \in 0..maxRows, len \in 0..MaxK}

\* np.digitize(mean_dists, self._bin_edges) - 1
BinIdx(query_dists) ==
  LET mean_dists == RowMeans(query_dists)
  IN  [i \in 1..Len(query_dists) |-> digitize(mean_dists[i], bin_edges) - 1]

\* logger.warning calls of one evaluate_query call
Warnings(query_dists) ==
  IF Len(query_dists) > 0 /\ Len(query_dists[1]) < estimator_neighborhood
  THEN 1 ELSE 0

\* what evaluate_query returns or raises
Outcome(query_dists) ==
  IF Len(query_dists) = 0
  THEN [kind |-> "IndexError", line |-> 43, scores |-> <<>>]
  ELSE LET bin_idx == BinIdx(query_dists)
       IN  IF \E i \in 1..Len(bin_idx) : IndexOutOfBounds(percentiles, bin_idx[i])
           THEN [kind |-> "IndexError", line |-> 51, scores |-> <<>>]
           ELSE [kind |-> "ok", line |-> 52,
                 scores |-> [i \in 1..Len(bin_idx) |-> Lookup(percentiles, bin_idx[i])]]

\* mutant of evaluate_query: the looked-up scores are written back to
\* self._percentiles
evaluate_query_overwriting(query_dists) ==
  /\ pc = "fit"
  /\ last_query' = query_dists
  /\ last_outcome' = Outcome(query_dists)
  /\ last_warnings' = Warnings(query_dists)
  /\ percentiles' = IF Outcome(query_dists).kind = "ok"
                    THEN Outcome(query_dists).scores ELSE percentiles
  /\ UNCHANGED <<args, construction, bin_edges, estimator_neighborhood>>

evaluate_query(query_dists) ==
  /\ pc = "fit"
  /\ last_query' = query_dists
  /\ last_outcome' = Outcome(query_dists)
  /\ last_warnings' = Warnings(query_dists)
  /\ UNCHANGED <<args, construction, fitted>>

\* Spec: the estimator is constructed and then queried once, with any batch
Evaluate ==
  /\ last_outcome = NoOutcome
  /\ \E q \in QueryBatches(MaxRows) : evaluate_query(q)
  /\ UNCHANGED <<first_call, intervening>>

\* SpecRepeat: the estimator is queried any number of times, one row per
\* call (or none); the first call is remembered
EvaluateRecorded ==
  \E q \in QueryBatches(1) :
    /\ evaluate_query(q)
    /\ first_call' = IF first_call = NoCall
                     THEN [query |-> q, outcome |-> last_outcome',
                           warnings |-> last_warnings']
                     ELSE first_call
    /\ intervening' = (intervening \/ (first_call # NoCall /\ q # first_call.query))

Next == IndexDensityDistribution_init \/ Evaluate

Spec == Init /\ [][Next]_vars

NextRepeat == IndexDensityDistribution_init \/ EvaluateRecorded

SpecRepeat == Init /\ [][NextRepeat]_vars

\* ================================================================ claims
Called == pc = "fit" /\ last_outcome.kind # "none"

\* the call's rows hold at least one distance each
RowsHoldDistances == Len(last_query) > 0 /\ Len(last_query[1]) > 0

NBins == Len(percentiles)

\* the bin index clamped to the nearest valid bin, 0..n_bins-1
ClampedBin(x) ==
  LET i == digitize(x, bin_edges) - 1
  IN  IF i < 0 THEN 0 ELSE IF i > NBins - 1 THEN NBins - 1 ELSE i

\* C1: whenever the collection holds no more than estimator_neighborhood
\* embeddings, construction ends with the "collection too small" error, no
\* fitted state exists and get_nearest_neighbors was never called.
C1_TooSmallRaises ==
  (pc # "new" /\ collection_count <= arg_neighborhood) =>
    /\ pc = "raised"
    /\ error = "ValueError: collection too small"
    /\ nn_calls = 0
    /\ percentiles = <<>> /\ bin_edges = <<>> /\ estimator_neighborhood = 0

\* C1 witness: construction was attempted on a collection of exactly
\* estimator_neighborhood embeddings and raised.
C1_Witness ==
  pc = "raised" /\ collection_count = arg_neighborhood /\ nn_calls = 0

\* C2 (as claimed): in every evaluate_query call a row whose mean is below the
\* lowest bin edge is scored with the value of bin 0, a row whose mean is at
\* or above the highest bin edge with the value of bin n_bins-1, and no such
\* row makes the call raise.
C2_OutOfRangeClamped ==
  (Called /\ RowsHoldDistances) =>
    \A i \in 1..Len(last_query) :
      LET m == Mean(last_query[i])
      IN  /\ RLt(m, bin_edges[1]) =>
               (last_outcome.kind = "ok" /\ last_outcome.scores[i] = percentiles[1])
          /\ RLe(bin_edges[NBins + 1], m) =>
               (last_outcome.kind = "ok" /\ last_outcome.scores[i] = percentiles[NBins])

\* C3 (as claimed): evaluate_query on an empty batch returns an empty sequence
\* and raises nothing.
C3_EmptyBatchReturnsEmpty ==
  (Called /\ last_query = <<>>) =>
    (last_outcome.kind = "ok" /\ last_outcome.scores = <<>>)

\* C4 (as claimed): for every non-empty batch of rows of equal length the call
\* returns one score per row, the i-th being the cumulative value of the bin
\* resolved for the mean of row i.
C4_OneScorePerRow ==
  (Called /\ RowsHoldDistances) =>
    /\ last_outcome.kind = "ok"
    /\ Len(last_outcome.scores) = Len(last_query)
    /\ \A i \in 1..Len(last_query) :
         last_outcome.scores[i] = percentiles[ClampedBin(Mean(last_query[i])) + 1]

\* C5 (as claimed): a call whose rows hold fewer distances than
\* estimator_neighborhood emits exactly one warning and still returns its
\* scores; a call whose rows hold at least estimator_neighborhood distances
\* emits no warning.
C5_WarnsAndReturns ==
  (Called /\ RowsHoldDistances) =>
    /\ Len(last_query[1]) < estimator_neighborhood =>
         (last_warnings = 1 /\ last_outcome.kind = "ok"
            /\ Len(last_outcome.scores) = Len(last_query))
    /\ Len(last_query[1]) >= estimator_neighborhood => last_warnings = 0

\* C6: no evaluate_query call, warning or failing ones included, changes the
\* cumulative array, the bin edges or estimator_neighborhood, and a call with
\* the same argument as the first call returns what the first call returned,
\* whatever calls were made in between.
C6_FittedStateImmutable ==
  /\ [][pc = "fit" => fitted' = fitted]_vars
  /\ []((first_call # NoCall /\ last_query = first_call.query) =>
          (last_outcome = first_call.outcome /\ last_warnings = first_call.warnings))

\* C6 witness: the first call's argument was passed again after a call with
\* another argument.
C6_Witness ==
  /\ first_call # NoCall
  /\ intervening
  /\ last_query = first_call.query
  /\ last_outcome.kind = "ok"

\* C7 (as claimed): whenever the collection holds more than
\* estimator_neighborhood embeddings and n_bins >= 1, construction succeeds
\* with exactly n_bins cumulative values and n_bins+1 bin edges.
C7_FitSucceeds ==
  (pc # "new" /\ collection_count > arg_neighborhood) =>
    /\ pc = "fit"
    /\ Len(percentiles) = arg_n_bins
    /\ Len(bin_edges) = arg_n_bins + 1

\* C8: in every fitted estimator the cumulative array starts non-negative and
\* never decreases from one bin to the next.
C8_CumulativeNonDecreasing ==
  pc = "fit" =>
    /\ RLe(FromInt(0), percentiles[1])
    /\ \A i \in 1..NBins : \A j \in 1..NBins :
         i < j => RLe(percentiles[i], percentiles[j])

\* C8 witness: a fitted estimator with several bins whose cumulative array
\* rises strictly from bin 0 to bin 1.
C8_Witness ==
  pc = "fit" /\ NBins >= 2 /\ RLt(percentiles[1], percentiles[2])

\* C9 (as claimed): after get_nearest_neighbors answered with
\* estimator_neighborhood distances per vector, the matrix left after dropping
\* column 0 is N x estimator_neighborhood.
C9_NeighborhoodColumns ==
  nn_calls > 0 => dists_shape = <<collection_count, arg_neighborhood>>

\* C10 (as claimed): in a call whose every row has the fitted mean distance of
\* some reference vector as its mean, each row is evaluated without error and
\* scored with the cumulative value of the bin np.histogram counted that
\* vector in, the vector with the largest mean distance included.
C10_FitAndEvaluateAgree ==
  (/\ Called /\ RowsHoldDistances
   /\ \A i \in 1..Len(last_query) : \E c \in fit_counted : Mean(last_query[i]) = c[1]) =>
    \A i \in 1..Len(last_query) : \A c \in fit_counted :
      Mean(last_query[i]) = c[1] =>
        (last_outcome.kind = "ok" /\ last_outcome.scores[i] = percentiles[c[2] + 1])

====
